---- MODULE Spec2Model ----
(***************************************************************************)
(* SyncRoom: the room coordination protocol of services/mockSocketService. *)
(*                                                                         *)
(* The persisted RoomState (localStorage), the permission table of the     *)
(* database (IndexedDB room_permissions) and the server clock are the      *)
(* state.  Spec and SpecMembers take one handler as one step: load,        *)
(* mutate, save, broadcast; in SpecMembers the snapshot that connect may   *)
(* hear while it awaits the database is an input of the step.  SpecLoop    *)
(* takes the steps of the event loop apart: tabs, the room lock of         *)
(* withLock, the awaits of connect, the timers of broadcastGlobal and the  *)
(* listeners.  SpecBus follows the three ways a room:update reaches a tab, *)
(* SpecPlayer the client's listeners of the scheduling events and their    *)
(* timers, SpecStore the handlers on a localStorage entry that is not a    *)
(* RoomState, SpecSync a SyncManager fed one pong per ping.                *)
(*                                                                         *)
(* Representation.  Times are integer milliseconds.  Positions (seconds in *)
(* the source, JavaScript numbers) are held in thousandths of a second, so *)
(* that "position * 1000" and "ms / 1000" are exact as they are in real    *)
(* arithmetic; the rounding of IEEE doubles is not modelled.  User ids are *)
(* the fresh random strings of connect, numbered in order of issue; the    *)
(* empty string is NoAdmin.  null is the empty sequence, a number n is     *)
(* <<n>>.                                                                  *)
(***************************************************************************)
EXTENDS Integers, Sequences, FiniteSets, TLC

\* ---- bounds of the model ------------------------------------------------
MaxUsers == 2
MaxQueue == 2
MaxTicks == 1
\* how many lead times a position may fall below zero (a pause that is
\* handled before the lead of its play has elapsed rewinds the position)
MaxRewinds == 1
\* members of the membership-only specification: two more than MaxUsers, so
\* that an admin can leave two members behind and a room that has lost its
\* admin can be joined three times
MaxMembers == MaxUsers + 2
\* commands a tab submits between its connect and its disconnect in the
\* event-loop specification
MaxCmds == 1
\* saves whose room:update the fan-out specification follows
MaxCommits == 2
\* scheduling events one client receives in the client specification
MaxEvents == 2
\* handlers that load the localStorage entry in the storage specification
MaxLoads == 3
\* pongs one SyncManager processes in the clock specification
MaxProbes == 120

\* ---- program constants --------------------------------------------------
LeadPlay == 500
LeadTrack == 800
LeadSeek == 300
SeedTrack == 1

\* ---- input domains ------------------------------------------------------
NoAdmin == 0
\* ids of the tracks submitted to addTrack; playSpecificTrack also asks
\* for an id that is never added
TrackIds == {1, 2}
RequestedTrackIds == TrackIds \cup {3}
SeekPositions == {0, 500}
TickSteps == {250}
\* the tabs that attach to the room in the event-loop specification
Tabs == { 1, 2 }
\* how an IndexedDB transaction ends: complete, error, or abort
TxOutcomes == { "complete", "error", "abort" }
\* localStorage.setItem returns or throws (quota)
SaveOutcomes == { "ok", "throw" }
\* the commands a tab submits in the event-loop specification
LoopCmds == { "cmd:play", "cmd:pause", "cmd:seek", "sync:ping" }
\* the position it seeks to
LoopSeek == 500
\* values of the four fields that the storage listener compares
Shown == { 0, 1 }
\* "already due" threshold of the client listeners, in ms
DueSlack == 20
\* values of the client's estimate of server time at which it acts
ClockPoints == { 0, 10, 480, 490, 510, 800, 820 }
\* the paused position of the room in the scenario of a play that resumes
\* 10 s into the track
ScenarioPosition == 10000
\* paused positions of the rooms whose commands the client hears about
HeardPositions == { 0, ScenarioPosition }
\* SyncManager.WINDOW_SIZE
WINDOW_SIZE == 20
\* offsets, latency and jitter are kept in units of 1/Scale ms
Scale == 1000
\* |target - current| above which the offset snaps, in ms
SnapOver == 500
\* period of the ping interval, in ms
PingEvery == 2000
\* fields of a stored object that no handler dereferences
InertFields == { "id", "name" }
\* handlers that begin with loadState
Loaders == { "connect", "disconnect", "cmd:play", "cmd:addTrack", "cmd:next" }

Null == << >>
Some(x) == << x >>
Val(o) == o[1]

InSeq(x, s) == \E i \in 1 .. Len(s) : s[i] = x
Ids(users) == { users[i].id : i \in 1 .. Len(users) }
Range(s) == { s[i] : i \in 1 .. Len(s) }

RECURSIVE SortedSeq(_)
SortedSeq(S) ==
  IF S = {} THEN << >>
  ELSE LET m == CHOOSE x \in S : \A y \in S : x <= y
       IN  << m >> \o SortedSeq(S \ {m})

\* JavaScript truthiness of a number | null
Truthy(o) == o # Null /\ Val(o) # 0
\* (x || 0)
OrZero(o) == IF Truthy(o) THEN Val(o) ELSE 0

\* ---- loadState: the default room ---------------------------------------
DefaultState ==
  [ users |-> << >>,
    queue |-> << SeedTrack >>,
    currentTrackId |-> SeedTrack,
    playbackState |-> "PAUSED",
    startAtServerTime |-> Null,
    pausedAtPosition |-> Some(0),
    adminId |-> NoAdmin,
    playAllowedUserIds |-> << >> ]

\* ---- events -------------------------------------------------------------
RoomUpdate(st) == [ type |-> "room:update", state |-> st ]
UserJoined(u) == [ type |-> "user:joined", user |-> u ]
UserLeft(u) == [ type |-> "user:left", user |-> u ]
PlayScheduled(trackId, playAt, startOffset) ==
  [ type |-> "play:scheduled", trackId |-> trackId,
    playAtServerTime |-> playAt, startOffset |-> startOffset ]
PauseSync(pauseAt, position) ==
  [ type |-> "pause:sync", pauseAtServerTime |-> pauseAt, position |-> position ]
SeekSync(position, at) ==
  [ type |-> "seek:sync", position |-> position, atServerTime |-> at ]

\* result of a handler: the state it left persisted, the permission table,
\* and the events it handed to broadcastGlobal, in order
Result(st, db, ev) == [ st |-> st, db |-> db, ev |-> ev ]

\* ---- database.getPermissions / setPermission ----------------------------
getPermissions(db) == SortedSeq(db)
setPermission(db, userId, canPlay) ==
  IF canPlay THEN db \cup {userId} ELSE db \ {userId}

\* Array.from(new Set([...a, ...b]))
Combined(a, b) ==
  a \o SelectSeq(b, LAMBDA x : ~ InSeq(x, a))

\* ---- MockSocket.connect -------------------------------------------------
\* connect is an async callback: it awaits the database twice while it holds
\* the lock, and it keeps its working state in the module variable mockState.
\* While it awaits, the storage listener and channel.onmessage of the same
\* tab may run and assign mockState the snapshot st that another tab has
\* just persisted.  Heard says at which await that happened.
Heard == { "none", "await1", "await2" }

\* up to the first await: mockState = loadState(roomId) and the admin branch
connectBegin(st, userId) ==
  IF Len(st.users) = 0 \/ st.adminId = NoAdmin
    THEN [ takeAdmin |-> TRUE,
           ms |-> [ st EXCEPT !.adminId = userId,
                              !.playAllowedUserIds = << userId >> ] ]
    ELSE [ takeAdmin |-> FALSE, ms |-> st ]

\* after the first await: the re-join merge and the User record
connectMerge(ms, takeAdmin, allowedIds) ==
  IF takeAdmin
    THEN ms
    ELSE [ ms EXCEPT !.playAllowedUserIds = Combined(@, allowedIds) ]

connectUser(ms, userId) == [ id |-> userId, isHost |-> (userId = ms.adminId) ]

\* after the second await (upsertUser): push, saveState, broadcastGlobal
connectCommit(ms, newUser) ==
  LET s2 == [ ms EXCEPT !.users = Append(@, newUser) ]
  IN  [ st |-> s2, ev |-> << RoomUpdate(s2), UserJoined(newUser) >> ]

\* connect of a tab whose listeners assign mockState the snapshot during
\* the await that heard names
connectHearing(st, db, userId, heard, snapshot) ==
  LET b == connectBegin(st, userId)
      ms1 == IF heard = "await1" THEN snapshot ELSE b.ms
      ms2 == connectMerge(ms1, b.takeAdmin, getPermissions(db))
      newUser == connectUser(ms2, userId)
      ms3 == IF heard = "await2" THEN snapshot ELSE ms2
      c == connectCommit(ms3, newUser)
      db1 == IF b.takeAdmin THEN setPermission(db, userId, TRUE) ELSE db
  IN  Result(c.st, db1, c.ev)

\* the snapshot heard is that of the state that connect loaded
connect(st, db, userId, heard) == connectHearing(st, db, userId, heard, st)

\* disconnect as it would be without the auto-grant of the promoted admin
disconnectNoGrant(st, db, userId) ==
  LET leaving == SelectSeq(st.users, LAMBDA u : u.id = userId)
      remaining == SelectSeq(st.users, LAMBDA u : u.id # userId)
      wasAdmin == userId = st.adminId
      newAdminId == IF wasAdmin
                      THEN (IF Len(remaining) > 0 THEN remaining[1].id ELSE NoAdmin)
                      ELSE st.adminId
      allowed1 == IF wasAdmin /\ Len(remaining) = 0
                    THEN << >>
                    ELSE st.playAllowedUserIds
      allowed2 == SelectSeq(allowed1,
                            LAMBDA id : id \in Ids(remaining) \/ id = newAdminId)
      users2 == [ i \in 1 .. Len(remaining) |->
                    [ remaining[i] EXCEPT !.isHost = (remaining[i].id = newAdminId) ] ]
      s2 == [ st EXCEPT !.users = users2,
                        !.adminId = newAdminId,
                        !.playAllowedUserIds = allowed2 ]
  IN  Result(s2, db,
             << RoomUpdate(s2) >> \o
             (IF Len(leaving) > 0 THEN << UserLeft(leaving[1]) >> ELSE << >>))

\* ---- MockSocket.disconnect ----------------------------------------------
disconnect(st, db, userId) ==
  LET leaving == SelectSeq(st.users, LAMBDA u : u.id = userId)
      remaining == SelectSeq(st.users, LAMBDA u : u.id # userId)
      wasAdmin == userId = st.adminId
      promote == wasAdmin /\ Len(remaining) > 0
      newAdminId == IF wasAdmin
                      THEN (IF Len(remaining) > 0 THEN remaining[1].id ELSE NoAdmin)
                      ELSE st.adminId
      granted == promote /\ ~ InSeq(newAdminId, st.playAllowedUserIds)
      allowed1 == IF wasAdmin
                    THEN (IF Len(remaining) > 0
                            THEN (IF granted
                                    THEN Append(st.playAllowedUserIds, newAdminId)
                                    ELSE st.playAllowedUserIds)
                            ELSE << >>)
                    ELSE st.playAllowedUserIds
      allowed2 == SelectSeq(allowed1,
                            LAMBDA id : id \in Ids(remaining) \/ id = newAdminId)
      users2 == [ i \in 1 .. Len(remaining) |->
                    [ remaining[i] EXCEPT !.isHost = (remaining[i].id = newAdminId) ] ]
      s2 == [ st EXCEPT !.users = users2,
                        !.adminId = newAdminId,
                        !.playAllowedUserIds = allowed2 ]
      db1 == IF granted THEN setPermission(db, newAdminId, TRUE) ELSE db
  IN  Result(s2, db1,
             << RoomUpdate(s2) >> \o
             (IF Len(leaving) > 0 THEN << UserLeft(leaving[1]) >> ELSE << >>))


\* ---- handleServerEvent --------------------------------------------------
\* hasPermission as it would be if it tested presence instead of permission
hasPermissionPresent(st, userId) == userId \in Ids(st.users)

hasPermission(st, userId) == InSeq(userId, st.playAllowedUserIds)

\* isAdmin as it would be if play permission were enough
isAdminOrPermitted(st, userId) ==
  st.adminId = userId \/ InSeq(userId, st.playAllowedUserIds)

isAdmin(st, userId) == st.adminId = userId

Rejected(st, db) == Result(st, db, << >>)

\* cmd:grantPlay without the includes() test
cmdGrantPlayAgain(st, db, userId, targetUserId) ==
  IF isAdmin(st, userId)
    THEN LET s2 == [ st EXCEPT !.playAllowedUserIds = Append(@, targetUserId) ]
         IN  Result(s2, setPermission(db, targetUserId, TRUE), << RoomUpdate(s2) >>)
    ELSE Rejected(st, db)

cmdGrantPlay(st, db, userId, targetUserId) ==
  IF isAdmin(st, userId) /\ ~ InSeq(targetUserId, st.playAllowedUserIds)
    THEN LET s2 == [ st EXCEPT !.playAllowedUserIds = Append(@, targetUserId) ]
         IN  Result(s2, setPermission(db, targetUserId, TRUE), << RoomUpdate(s2) >>)
    ELSE Rejected(st, db)

\* cmd:revokePlay without the test that spares the admin
cmdRevokePlayAnyTarget(st, db, userId, targetUserId) ==
  IF isAdmin(st, userId)
    THEN LET s2 == [ st EXCEPT !.playAllowedUserIds =
                                 SelectSeq(@, LAMBDA id : id # targetUserId) ]
         IN  Result(s2, setPermission(db, targetUserId, FALSE), << RoomUpdate(s2) >>)
    ELSE Rejected(st, db)

cmdRevokePlay(st, db, userId, targetUserId) ==
  IF isAdmin(st, userId) /\ targetUserId # st.adminId
    THEN LET s2 == [ st EXCEPT !.playAllowedUserIds =
                                 SelectSeq(@, LAMBDA id : id # targetUserId) ]
         IN  Result(s2, setPermission(db, targetUserId, FALSE), << RoomUpdate(s2) >>)
    ELSE Rejected(st, db)

\* cmd:play without the state precondition
cmdPlayNoStateCheck(st, db, userId, serverNow) ==
  IF hasPermission(st, userId)
    THEN LET playAt == serverNow + LeadPlay
             s2 == [ st EXCEPT !.playbackState = "PLAYING",
                               !.startAtServerTime =
                                   Some(playAt - OrZero(st.pausedAtPosition)) ]
         IN  Result(s2, db,
                    << RoomUpdate(s2),
                       PlayScheduled(s2.currentTrackId, playAt,
                                     OrZero(s2.pausedAtPosition)) >>)
    ELSE Rejected(st, db)

\* cmd:play that starts the clock of the track at playAt, whatever the
\* paused position
cmdPlayFromZero(st, db, userId, serverNow) ==
  IF hasPermission(st, userId) /\ st.playbackState # "PLAYING"
    THEN LET playAt == serverNow + LeadPlay
             s2 == [ st EXCEPT !.playbackState = "PLAYING",
                               !.startAtServerTime = Some(playAt) ]
         IN  Result(s2, db,
                    << RoomUpdate(s2),
                       PlayScheduled(s2.currentTrackId, playAt,
                                     OrZero(s2.pausedAtPosition)) >>)
    ELSE Rejected(st, db)

\* cmd:play with its two broadcastGlobal calls exchanged
cmdPlayEventFirst(st, db, userId, serverNow) ==
  IF hasPermission(st, userId) /\ st.playbackState # "PLAYING"
    THEN LET playAt == serverNow + LeadPlay
             s2 == [ st EXCEPT !.playbackState = "PLAYING",
                               !.startAtServerTime =
                                   Some(playAt - OrZero(st.pausedAtPosition)) ]
         IN  Result(s2, db,
                    << PlayScheduled(s2.currentTrackId, playAt,
                                     OrZero(s2.pausedAtPosition)),
                       RoomUpdate(s2) >>)
    ELSE Rejected(st, db)

cmdPlay(st, db, userId, serverNow) ==
  IF hasPermission(st, userId) /\ st.playbackState # "PLAYING"
    THEN LET playAt == serverNow + LeadPlay
             s2 == [ st EXCEPT !.playbackState = "PLAYING",
                               !.startAtServerTime =
                                   Some(playAt - OrZero(st.pausedAtPosition)) ]
         IN  Result(s2, db,
                    << RoomUpdate(s2),
                       PlayScheduled(s2.currentTrackId, playAt,
                                     OrZero(s2.pausedAtPosition)) >>)
    ELSE Rejected(st, db)

\* cmd:playSpecificTrack with the lead of cmd:play
cmdPlaySpecificTrackShortLead(st, db, userId, trackId, serverNow) ==
  IF hasPermission(st, userId) /\ InSeq(trackId, st.queue)
    THEN LET playAt == serverNow + LeadPlay
             s2 == [ st EXCEPT !.currentTrackId = trackId,
                               !.playbackState = "PLAYING",
                               !.pausedAtPosition = Some(0),
                               !.startAtServerTime = Some(playAt) ]
         IN  Result(s2, db,
                    << RoomUpdate(s2), PlayScheduled(trackId, playAt, 0) >>)
    ELSE Rejected(st, db)

cmdPlaySpecificTrack(st, db, userId, trackId, serverNow) ==
  IF hasPermission(st, userId) /\ InSeq(trackId, st.queue)
    THEN LET playAt == serverNow + LeadTrack
             s2 == [ st EXCEPT !.currentTrackId = trackId,
                               !.playbackState = "PLAYING",
                               !.pausedAtPosition = Some(0),
                               !.startAtServerTime = Some(playAt) ]
         IN  Result(s2, db,
                    << RoomUpdate(s2), PlayScheduled(trackId, playAt, 0) >>)
    ELSE Rejected(st, db)

\* cmd:pause that leaves the start instant in place
cmdPauseKeepsStart(st, db, userId, serverNow) ==
  IF hasPermission(st, userId) /\ st.playbackState = "PLAYING"
    THEN LET pauseAt == serverNow
             elapsed == IF Truthy(st.startAtServerTime)
                          THEN pauseAt - Val(st.startAtServerTime)
                          ELSE 0
             s2 == [ st EXCEPT !.playbackState = "PAUSED",
                               !.pausedAtPosition = Some(elapsed) ]
         IN  Result(s2, db, << RoomUpdate(s2), PauseSync(pauseAt, elapsed) >>)
    ELSE Rejected(st, db)

cmdPause(st, db, userId, serverNow) ==
  IF hasPermission(st, userId) /\ st.playbackState = "PLAYING"
    THEN LET pauseAt == serverNow
             elapsed == IF Truthy(st.startAtServerTime)
                          THEN pauseAt - Val(st.startAtServerTime)
                          ELSE 0
             s2 == [ st EXCEPT !.playbackState = "PAUSED",
                               !.pausedAtPosition = Some(elapsed),
                               !.startAtServerTime = Null ]
         IN  Result(s2, db, << RoomUpdate(s2), PauseSync(pauseAt, elapsed) >>)
    ELSE Rejected(st, db)

\* cmd:seek that does not move the start instant of a playing room
cmdSeekKeepsStart(st, db, userId, position, serverNow) ==
  IF hasPermission(st, userId)
    THEN LET seekAt == serverNow + LeadSeek
             s2 == [ st EXCEPT !.pausedAtPosition = Some(position) ]
         IN  Result(s2, db, << RoomUpdate(s2), SeekSync(position, seekAt) >>)
    ELSE Rejected(st, db)

cmdSeek(st, db, userId, position, serverNow) ==
  IF hasPermission(st, userId)
    THEN LET seekAt == serverNow + LeadSeek
             s1 == [ st EXCEPT !.pausedAtPosition = Some(position) ]
             s2 == IF st.playbackState = "PLAYING"
                     THEN [ s1 EXCEPT !.startAtServerTime = Some(seekAt - position) ]
                     ELSE s1
         IN  Result(s2, db, << RoomUpdate(s2), SeekSync(position, seekAt) >>)
    ELSE Rejected(st, db)

\* cmd:addTrack as it would be behind the permission test
cmdAddTrackPermitted(st, db, userId, newTrack) ==
  IF hasPermission(st, userId)
    THEN LET s2 == [ st EXCEPT !.queue = Append(@, newTrack) ]
         IN  Result(s2, db, << RoomUpdate(s2) >>)
    ELSE Rejected(st, db)

cmdAddTrack(st, db, userId, newTrack) ==
  LET s2 == [ st EXCEPT !.queue = Append(@, newTrack) ]
  IN  Result(s2, db, << RoomUpdate(s2) >>)

\* queue.findIndex(t => t.id === currentTrackId), 1-based; 0 when absent
findIndex(queue, trackId) ==
  IF InSeq(trackId, queue)
    THEN CHOOSE i \in 1 .. Len(queue) :
           queue[i] = trackId /\ \A j \in 1 .. (i - 1) : queue[j] # trackId
    ELSE 0

\* cmd:next that wraps around at the end of the queue
cmdNextWraps(st, db, userId) ==
  LET currentIndex == findIndex(st.queue, st.currentTrackId)
  IN  IF hasPermission(st, userId)
        THEN LET s2 == [ st EXCEPT !.currentTrackId =
                                       st.queue[(currentIndex % Len(st.queue)) + 1],
                                   !.playbackState = "PAUSED",
                                   !.pausedAtPosition = Some(0),
                                   !.startAtServerTime = Null ]
             IN  Result(s2, db, << RoomUpdate(s2) >>)
        ELSE Rejected(st, db)

\* cmd:next that changes the track and leaves the playback state alone
cmdNextKeepsPlaying(st, db, userId) ==
  LET currentIndex == findIndex(st.queue, st.currentTrackId)
  IN  IF hasPermission(st, userId) /\ currentIndex + 1 <= Len(st.queue)
        THEN LET s2 == [ st EXCEPT !.currentTrackId = st.queue[currentIndex + 1],
                                   !.pausedAtPosition = Some(0) ]
             IN  Result(s2, db, << RoomUpdate(s2) >>)
        ELSE Rejected(st, db)

cmdNext(st, db, userId) ==
  LET currentIndex == findIndex(st.queue, st.currentTrackId)
  IN  IF hasPermission(st, userId) /\ currentIndex + 1 <= Len(st.queue)
        THEN LET s2 == [ st EXCEPT !.currentTrackId = st.queue[currentIndex + 1],
                                   !.playbackState = "PAUSED",
                                   !.pausedAtPosition = Some(0),
                                   !.startAtServerTime = Null ]
             IN  Result(s2, db, << RoomUpdate(s2) >>)
        ELSE Rejected(st, db)

\* ---- the state machine --------------------------------------------------
VARIABLES
  room,      \* the persisted RoomState (what loadState returns)
  saved,     \* some session holds a room state (mockState is not null)
  dbPerms,   \* room_permissions rows with canPlay, for this room
  nextId,    \* number of user ids issued so far, plus one
  now,       \* MockSocket.getServerTime()
  events,    \* what the last handler handed to broadcastGlobal, in order,
             \* until its timers have fired
  last,      \* history: the message that the last handler handled and the
             \* room it loaded, until its broadcasts have been delivered
  locks,     \* navigator.locks is defined
  holder,    \* the tab whose callback holds the room lock, 0 when free
  tabs,      \* per tab: where its message stands, and connect's locals
  pending,   \* per tab: the snapshot of another tab's last save whose
             \* storage event / channel message has not been handled yet
  timers,    \* per tab: the setTimeout(0) callbacks of broadcastGlobal
  received,  \* per tab: what its listeners have been called with, in
             \* order, since the callback of its last message started
  bus,       \* fan-out of room:update: commits, and per tab the timers,
             \* the storage events and channel messages on their way, and
             \* the commits its listeners have been called with
  player,    \* one client: its estimate of server time, its audio element,
             \* the timers its listeners have armed, and the last step
  store,     \* the localStorage entry of the room as any script of the
             \* origin may leave it, and the last handler that loaded it
  sync,      \* a SyncManager, the path its probes travel, the number of
             \* pongs it has processed, and what the last one started from
  late       \* the snapshot of an earlier save whose channel message has not
             \* reached the other tabs yet, or null

loopVars == << locks, holder, tabs, pending, timers, received >>
extVars == << bus, player, store, sync, late >>
vars == << room, saved, dbPerms, nextId, now, events, last, loopVars, extVars >>

\* no handler has run since the last delivery
Idle ==
  [ op |-> "none", userId |-> NoAdmin, arg |-> 0, now |-> 0, pre |-> DefaultState ]
Settled == last = Idle /\ events = << >>

Op(name, userId, arg) ==
  [ op |-> name, userId |-> userId, arg |-> arg, now |-> now, pre |-> room ]

InBounds(st) == Val(st.pausedAtPosition) >= - (MaxRewinds * LeadPlay)

\* One handler inside withLock: it loads room, and r is what it saves and
\* broadcasts.  The properties of this module relate the room before and
\* after one handler, so a handler is started from a settled state; Deliver
\* changes neither room nor dbPerms, so the rooms that can be reached are
\* those of the unrestricted interleaving.
Apply(r, name, userId, arg) ==
  /\ Settled
  /\ InBounds(r.st)
  /\ room' = r.st
  /\ dbPerms' = r.db
  /\ events' = r.ev
  /\ last' = Op(name, userId, arg)
  /\ UNCHANGED << loopVars, extVars >>

\* a tab whose page has loaded and has not called connect
NewTab ==
  [ pc |-> "new",          \* new, queued, await1, await2, idle, failed, hung
    msg |-> "none",        \* the message that is queued or was handled last
    no |-> 0,              \* its number among the messages of the tab
    uid |-> NoAdmin,       \* the user connect resolved with
    sent |-> 0,            \* commands emitted
    userId |-> NoAdmin,    \* connect's locals, and mockState while it awaits
    takeAdmin |-> FALSE,
    ms |-> Null,
    newUser |-> Null ]

InitRoom ==
  /\ room = DefaultState
  /\ saved = FALSE
  /\ dbPerms = {}
  /\ nextId = 1
  /\ now = 0
  /\ events = << >>
  /\ last = Idle
  /\ holder = 0
  /\ tabs = [ t \in Tabs |-> NewTab ]
  /\ pending = [ t \in Tabs |-> Null ]
  /\ timers = [ t \in Tabs |-> << >> ]
  /\ received = [ t \in Tabs |-> << >> ]

\* nothing has been committed to the bus
BusOff ==
  [ commits |-> 0,
    timers |-> [ t \in Tabs |-> << >> ],
    storage |-> [ t \in Tabs |-> << >> ],
    channel |-> [ t \in Tabs |-> << >> ],
    seen |-> [ t \in Tabs |-> << >> ],
    mem |-> [ t \in Tabs |-> 0 ],
    shown |-> << >> ]

\* a client that has mounted its audio element and received nothing
PlayerOff ==
  [ est |-> 0,
    media |-> [ playing |-> FALSE, pos |-> 0 ],
    progress |-> 0,
    armed |-> {},
    count |-> 0,
    last |-> [ type |-> "none" ] ]

\* values of localStorage.getItem(key): no entry, text that JSON.parse
\* rejects, and text it accepts: "null", an object with the given fields
\* only, a RoomState
Absent == [ kind |-> "absent" ]
Unparseable == [ kind |-> "text" ]
JsonNull == [ kind |-> "null" ]
JsonObject(fields) == [ kind |-> "object", has |-> fields ]
Stored(st) == [ kind |-> "state", st |-> st ]

StoreOff ==
  [ stored |-> Absent, read |-> Absent, loaded |-> Absent,
    op |-> "none", outcome |-> "none", count |-> 0 ]

\* ---- SyncManager ---------------------------------------------------------
\* A division by 16, by 100 or by a time span is rounded down to a whole
\* unit, so a result is at most one unit below the quotient.
Abs(x) == IF x < 0 THEN 0 - x ELSE x
Max(a, b) == IF a >= b THEN a ELSE b

NewManager ==
  [ samples |-> << >>, currentOffset |-> 0, currentLatency |-> 0,
    drift |-> 0, jitter |-> 0 ]

\* jitter that starts over whenever the window is full
jitterNextWindowed(samples, jitter, rtt) ==
  IF Len(samples) >= WINDOW_SIZE
    THEN 0
    ELSE IF Len(samples) > 0
           THEN jitter + (Abs(rtt - samples[Len(samples)].rtt) * Scale - jitter) \div 16
           ELSE jitter

jitterNext(samples, jitter, rtt) ==
  IF Len(samples) > 0
    THEN LET prevRtt == samples[Len(samples)].rtt
             diff == Abs(rtt - prevRtt) * Scale
         IN  jitter + (diff - jitter) \div 16
    ELSE jitter

\* a full window that refuses the new sample
historyNextKeepsOldest(samples, sample) ==
  IF Len(samples) >= WINDOW_SIZE THEN samples ELSE Append(samples, sample)

historyNext(samples, sample) ==
  LET pushed == Append(samples, sample)
  IN  IF Len(pushed) > WINDOW_SIZE THEN Tail(pushed) ELSE pushed

\* samples.reduce((min, s) => s.rtt < min.rtt ? s : min, samples[0])
RECURSIVE reduceMin(_, _, _)
reduceMin(samples, i, min) ==
  IF i > Len(samples)
    THEN min
    ELSE reduceMin(samples, i + 1, IF samples[i].rtt < min.rtt THEN samples[i] ELSE min)

\* the reduce that lets a later sample of equal rtt win
bestSampleLatest(samples) ==
  LET least == reduceMin(samples, 1, samples[1]).rtt
      i == CHOOSE k \in 1 .. Len(samples) :
             /\ samples[k].rtt = least
             /\ \A j \in (k + 1) .. Len(samples) : samples[j].rtt # least
  IN  samples[i]

bestSample(samples) == reduceMin(samples, 1, samples[1])

driftNext(samples, drift) ==
  IF Len(samples) >= 2
    THEN LET oldest == samples[1]
             newest == samples[Len(samples)]
             timeSpanMs == newest.receivedAt - oldest.receivedAt
         IN  IF timeSpanMs > 1000
               THEN ((newest.offset - oldest.offset) * 1000) \div timeSpanMs
               ELSE drift
    ELSE drift

smooth(currentOffset, targetOffset) ==
  IF currentOffset = 0 \/ Abs(targetOffset - currentOffset) > SnapOver * Scale
    THEN targetOffset
    ELSE currentOffset + ((targetOffset - currentOffset) * 15) \div 100

\* processPong, with clientReceiveTime = Date.now() passed in
processPong(m, clientSendTime, serverReceiveTime, serverReplyTime, clientReceiveTime) ==
  LET networkDelay == (clientReceiveTime - clientSendTime) - (serverReplyTime - serverReceiveTime)
      rtt == Max(0, networkDelay)
      rawOffset == (((serverReceiveTime - clientSendTime)
                      + (serverReplyTime - clientReceiveTime)) * Scale) \div 2
      jitter == jitterNext(m.samples, m.jitter, rtt)
      sample == [ rtt |-> rtt, offset |-> rawOffset, receivedAt |-> clientReceiveTime ]
      samples == historyNext(m.samples, sample)
      best == bestSample(samples)
  IN  [ samples |-> samples,
        currentOffset |-> smooth(m.currentOffset, best.offset),
        currentLatency |-> (best.rtt * Scale) \div 2,
        drift |-> driftNext(samples, m.drift),
        jitter |-> jitter ]

\* ---- the paths of the probes ----------------------------------------------
\* A path has a true offset (reference clock minus local clock, ms) and the
\* one-way delays << up, down >> of its probes: those of head once, then
\* those of cycle over and over.  The reference side replies at once, as
\* the sync:ping handler does.
Path(offset, head, cycle) == [ offset |-> offset, head |-> head, cycle |-> cycle ]

\* the path of this program: the ping waits 50 ms in emit, the reference
\* clock is the local clock, and the pong arrives in the same task
MockPath == Path(0, << >>, << << 50, 0 >> >>)

Paths ==
  { MockPath,
    Path(100, << >>, << << 25, 25 >> >>),
    Path(0, << >>, << << 20, 20 >>, << 37, 37 >> >>),
    Path(0 - 300, << >>, << << 60, 0 >>, << 100, 0 >> >>),
    Path(0, << << 10, 10 >> >>, << << 8, 0 >> >>),
    Path(100, << << 5, 5 >> >>, << << 1200, 0 >> >>),
    Path(100, << << 30, 30 >> >>, << << 40, 0 >> >>),
    Path(0, << >>, << << 20, 0 >>, << 0, 20 >> >>) }

Delays(path, i) ==
  IF i <= Len(path.head)
    THEN path.head[i]
    ELSE path.cycle[((i - Len(path.head) - 1) % Len(path.cycle)) + 1]

Rtt(path, i) == Delays(path, i)[1] + Delays(path, i)[2]
SentAt(path, i) == PingEvery * (i - 1)
ReceivedAt(path, i) == SentAt(path, i) + Rtt(path, i)

\* the pong of probe i, and the local time at which it is processed
PongOf(path, i) ==
  LET clientSendTime == SentAt(path, i)
      serverNow == clientSendTime + Delays(path, i)[1] + path.offset
  IN  [ clientSendTime |-> clientSendTime,
        serverReceiveTime |-> serverNow,
        serverReplyTime |-> serverNow ]

SyncStart(path) ==
  [ path |-> path, count |-> 0, m |-> NewManager, before |-> NewManager ]

ExtOff ==
  /\ bus = BusOff /\ player = PlayerOff /\ store = StoreOff
  /\ sync = SyncStart(MockPath)
  /\ late = Null

Init == InitRoom /\ locks = TRUE /\ ExtOff

\* the setTimeout(0) callbacks of broadcastGlobal have run: nothing of the
\* last handler is pending any more
Deliver ==
  /\ ~ Settled
  /\ events' = << >>
  /\ last' = Idle
  /\ UNCHANGED << room, saved, dbPerms, nextId, now, loopVars, extVars >>

Tick ==
  /\ Settled
  /\ \E d \in TickSteps :
       /\ now + d <= MaxTicks * d
       /\ now' = now + d
  /\ UNCHANGED << room, saved, dbPerms, nextId, events, last, loopVars, extVars >>

\* connect of the limit-th user at most; a snapshot can be heard during its
\* awaits once another tab has persisted one
ConnectUpTo(limit, hearing) ==
  /\ nextId <= limit
  /\ \E h \in (IF saved THEN hearing ELSE { "none" }) :
       Apply(connect(room, dbPerms, nextId, h), "connect", nextId, 0)
  /\ nextId' = nextId + 1
  /\ saved' = TRUE
  /\ UNCHANGED now

\* Spec follows playback and the queue and lets connect hear nothing;
\* SpecMembers and SpecLoop follow what connect hears.
Connect == ConnectUpTo(MaxUsers, { "none" })

Issued == 1 .. (nextId - 1)
Submitters == Issued
\* a target is any id ever issued: a present user or one that has left
Targets == Issued

Disconnect ==
  /\ saved
  /\ \E u \in Issued : Apply(disconnect(room, dbPerms, u), "disconnect", u, 0)
  /\ UNCHANGED << saved, nextId, now >>

GrantPlay ==
  /\ saved
  /\ \E u \in Submitters, t \in Targets :
       Apply(cmdGrantPlay(room, dbPerms, u, t), "cmd:grantPlay", u, t)
  /\ UNCHANGED << saved, nextId, now >>

RevokePlay ==
  /\ saved
  /\ \E u \in Submitters, t \in Targets :
       Apply(cmdRevokePlay(room, dbPerms, u, t), "cmd:revokePlay", u, t)
  /\ UNCHANGED << saved, nextId, now >>

Play ==
  /\ saved
  /\ \E u \in Submitters : Apply(cmdPlay(room, dbPerms, u, now), "cmd:play", u, 0)
  /\ UNCHANGED << saved, nextId, now >>

PlaySpecificTrack ==
  /\ saved
  /\ \E u \in Submitters, t \in RequestedTrackIds :
       Apply(cmdPlaySpecificTrack(room, dbPerms, u, t, now),
             "cmd:playSpecificTrack", u, t)
  /\ UNCHANGED << saved, nextId, now >>

Pause ==
  /\ saved
  /\ \E u \in Submitters : Apply(cmdPause(room, dbPerms, u, now), "cmd:pause", u, 0)
  /\ UNCHANGED << saved, nextId, now >>

Seek ==
  /\ saved
  /\ \E u \in Submitters, p \in SeekPositions :
       Apply(cmdSeek(room, dbPerms, u, p, now), "cmd:seek", u, p)
  /\ UNCHANGED << saved, nextId, now >>

AddTrack ==
  /\ saved
  /\ Len(room.queue) < MaxQueue
  /\ \E u \in Submitters, t \in TrackIds :
       Apply(cmdAddTrack(room, dbPerms, u, t), "cmd:addTrack", u, t)
  /\ UNCHANGED << saved, nextId, now >>

NextTrack ==
  /\ saved
  /\ \E u \in Submitters : Apply(cmdNext(room, dbPerms, u), "cmd:next", u, 0)
  /\ UNCHANGED << saved, nextId, now >>

Next ==
  \/ Tick
  \/ Deliver
  \/ Connect
  \/ Disconnect
  \/ GrantPlay
  \/ RevokePlay
  \/ Play
  \/ PlaySpecificTrack
  \/ Pause
  \/ Seek
  \/ AddTrack
  \/ NextTrack

Spec == Init /\ [][Next]_vars

\* ---- membership and permissions only -----------------------------------
\* connect, disconnect, cmd:grantPlay and cmd:revokePlay with one more
\* member than Spec admits; playback and the queue stay as loadState's
\* default.
Join == ConnectUpTo(MaxMembers, Heard)

NextMembers ==
  \/ Deliver
  \/ Join
  \/ Disconnect
  \/ GrantPlay
  \/ RevokePlay

SpecMembers == Init /\ [][NextMembers]_vars

\* ---- joins that hear a late snapshot ---------------------------------------
\* broadcastGlobal posts the channel message of a save from a setTimeout(0)
\* callback, which runs after the local listeners and after the lock has
\* been released; another tab may have saved and a third may have loaded
\* that state in connect by then.  late is the snapshot of such a message;
\* when it arrives in a tab that awaits in connect, channel.onmessage
\* assigns it to mockState.  The handlers hold the lock and are one step
\* each, as in Spec; the clock is not followed.
LateApply(r, name, userId, arg, remaining) ==
  /\ Settled
  /\ room' = r.st
  /\ dbPerms' = r.db
  /\ events' = r.ev
  /\ last' = Op(name, userId, arg)
  /\ late' \in { remaining } \cup (IF r.ev # << >> THEN { Some(r.st) } ELSE { })
  /\ UNCHANGED << now, loopVars, bus, player, store, sync >>

LateJoin ==
  /\ nextId <= MaxUsers
  /\ \E h \in Heard :
       IF h = "none"
         THEN LateApply(connect(room, dbPerms, nextId, h), "connect", nextId, 0, late)
         ELSE /\ late # Null
              /\ LateApply(connectHearing(room, dbPerms, nextId, h, Val(late)),
                           "connect", nextId, 0, Null)
  /\ nextId' = nextId + 1
  /\ saved' = TRUE

\* the late message arrives while no tab awaits in connect
LateArrives ==
  /\ Settled
  /\ late # Null
  /\ late' = Null
  /\ UNCHANGED << room, saved, dbPerms, nextId, now, events, last, loopVars,
                  bus, player, store, sync >>

LateAddTrack ==
  /\ saved
  /\ Len(room.queue) < MaxQueue
  /\ \E u \in Submitters, t \in TrackIds :
       LateApply(cmdAddTrack(room, dbPerms, u, t), "cmd:addTrack", u, t, late)
  /\ UNCHANGED << saved, nextId >>

LatePlaySpecificTrack ==
  /\ saved
  /\ \E u \in Submitters, t \in RequestedTrackIds :
       LateApply(cmdPlaySpecificTrack(room, dbPerms, u, t, now),
                 "cmd:playSpecificTrack", u, t, late)
  /\ UNCHANGED << saved, nextId >>

LateNextTrack ==
  /\ saved
  /\ \E u \in Submitters : LateApply(cmdNext(room, dbPerms, u), "cmd:next", u, 0, late)
  /\ UNCHANGED << saved, nextId >>

NextLate ==
  \/ Deliver
  \/ LateJoin
  \/ LateArrives
  \/ LateAddTrack
  \/ LatePlaySpecificTrack
  \/ LateNextTrack

SpecLate == Init /\ [][NextLate]_vars

\* ---- the event loop ------------------------------------------------------
\* Tabs of one browser share localStorage, the database and the room lock.
\* A tab submits connect, then commands, then disconnect.  withLock runs
\* the callback of a message when the lock is granted, or at once when
\* navigator.locks is undefined.  The callbacks of disconnect and emit are
\* synchronous and are one step each; the callback of connect awaits the
\* database twice and is three steps, and other tasks of every tab run
\* between them.

Awaiting(t) == tabs[t].pc \in { "await1", "await2" }
\* the callback of connect has started in tab t and has not returned
Inside(t) == tabs[t].pc \in { "await1", "await2", "hung" }
\* The timer that calls withLock for a message of tab t is armed after the
\* setTimeout(0) callbacks of the tab's earlier messages and is due no
\* earlier, so those have run when the callback starts.
Granted(t) == timers[t] = << >> /\ (locks => holder = 0)
Taken(t) == IF locks THEN t ELSE 0

Submit(t, m) ==
  /\ tabs' = [ tabs EXCEPT ![t].pc = "queued", ![t].msg = m, ![t].no = @ + 1,
                           ![t].sent = IF m \in LoopCmds THEN @ + 1 ELSE @ ]
  /\ UNCHANGED << room, saved, dbPerms, nextId, now, events, last, extVars,
                  locks, holder, pending, timers, received >>

\* MockSocket.connect up to the timer that calls withLock
Open(t) == tabs[t].pc = "new" /\ Submit(t, "connect")

Joined(t) ==
  tabs[t].pc = "idle" /\ tabs[t].uid # NoAdmin /\ tabs[t].msg # "disconnect"

Emit(t) ==
  /\ Joined(t)
  /\ tabs[t].sent < MaxCmds
  /\ \E c \in LoopCmds : Submit(t, c)

Leave(t) == Joined(t) /\ Submit(t, "disconnect")

\* saveState has returned in tab t: the setTimeout(0) callbacks of
\* broadcastGlobal are armed in order, and the tabs that listen will be told
\* the snapshot
Post(t, ev, st) ==
  /\ timers' = [ timers EXCEPT ![t] =
       @ \o [ i \in 1 .. Len(ev) |-> [ ev |-> ev[i], no |-> tabs[t].no, saved |-> st ] ] ]
  /\ pending' = [ u \in Tabs |->
       IF u # t /\ tabs[u].pc # "new" THEN Some(st) ELSE pending[u] ]

\* the callback of connect, from loadState to the first await
EnterConnect(t) ==
  /\ tabs[t].pc = "queued" /\ tabs[t].msg = "connect"
  /\ Granted(t)
  /\ LET b == connectBegin(room, nextId)
     IN  tabs' = [ tabs EXCEPT ![t].pc = "await1", ![t].userId = nextId,
                               ![t].takeAdmin = b.takeAdmin, ![t].ms = Some(b.ms) ]
  /\ nextId' = nextId + 1
  /\ holder' = Taken(t)
  /\ received' = [ received EXCEPT ![t] = << >> ]
  /\ UNCHANGED << room, saved, dbPerms, now, events, last, extVars,
                  locks, pending, timers >>

\* the callback of connect ends without saving: the promise of withLock
\* rejects and the lock is released
Fail(t) ==
  /\ tabs' = [ tabs EXCEPT ![t].pc = "failed" ]
  /\ holder' = 0
  /\ UNCHANGED << room, dbPerms, pending, timers >>

\* the transaction has aborted: setPermission, getPermissions and upsertUser
\* settle their promise in oncomplete / onsuccess and onerror only
Hang(t) ==
  /\ tabs' = [ tabs EXCEPT ![t].pc = "hung" ]
  /\ UNCHANGED << room, dbPerms, pending, timers, holder >>

\* the first await of connect (setPermission or getPermissions) is over
Await1(t) ==
  /\ tabs[t].pc = "await1"
  /\ \E o \in TxOutcomes :
       CASE o = "complete" ->
              LET ms2 == connectMerge(Val(tabs[t].ms), tabs[t].takeAdmin,
                                      getPermissions(dbPerms))
              IN  /\ tabs' = [ tabs EXCEPT ![t].pc = "await2", ![t].ms = Some(ms2),
                        ![t].newUser = Some(connectUser(ms2, tabs[t].userId)) ]
                  /\ dbPerms' = IF tabs[t].takeAdmin
                                  THEN setPermission(dbPerms, tabs[t].userId, TRUE)
                                  ELSE dbPerms
                  /\ UNCHANGED << room, pending, timers, holder >>
         [] o = "error" -> Fail(t)
         [] o = "abort" -> Hang(t)
  /\ UNCHANGED << saved, nextId, now, events, last, extVars, locks, received >>

\* the second await of connect (upsertUser) is over; push, saveState,
\* broadcastGlobal twice, resolve
Await2(t) ==
  /\ tabs[t].pc = "await2"
  /\ \E o \in TxOutcomes, sv \in SaveOutcomes :
       CASE o = "complete" /\ sv = "ok" ->
              LET c == connectCommit(Val(tabs[t].ms), Val(tabs[t].newUser))
              IN  /\ room' = c.st
                  /\ Post(t, c.ev, c.st)
                  /\ tabs' = [ tabs EXCEPT ![t].pc = "idle", ![t].uid = tabs[t].userId ]
                  /\ holder' = 0
                  /\ UNCHANGED dbPerms
         [] o = "complete" /\ sv = "throw" -> Fail(t)
         [] o = "error" -> Fail(t)
         [] o = "abort" -> Hang(t)
  /\ UNCHANGED << saved, nextId, now, events, last, extVars, locks, received >>

\* what the synchronous callback of message m of user uid does to the room
Handle(m, uid) ==
  CASE m = "disconnect" -> disconnect(room, dbPerms, uid)
    [] m = "cmd:play"   -> cmdPlay(room, dbPerms, uid, now)
    [] m = "cmd:pause"  -> cmdPause(room, dbPerms, uid, now)
    [] m = "cmd:seek"   -> cmdSeek(room, dbPerms, uid, LoopSeek, now)
    [] OTHER            -> Rejected(room, dbPerms)

\* the sync:pong handed to broadcastToLocal by the handler of sync:ping:
\* the listeners run before the handler returns
Pong(t) ==
  [ type |-> "sync:pong", no |-> tabs[t].no, inside |-> TRUE, same |-> TRUE ]

\* the callback of disconnect or emit: lock, handler, unlock
EnterSync(t) ==
  /\ tabs[t].pc = "queued" /\ tabs[t].msg # "connect"
  /\ Granted(t)
  /\ LET r == Handle(tabs[t].msg, tabs[t].uid)
     IN  \E sv \in SaveOutcomes :
           IF r.ev # << >> /\ sv = "ok"
             THEN room' = r.st /\ dbPerms' = r.db /\ Post(t, r.ev, r.st)
             ELSE room' = room /\ dbPerms' = r.db /\ UNCHANGED << pending, timers >>
  /\ received' = [ received EXCEPT ![t] =
       IF tabs[t].msg = "sync:ping" THEN << Pong(t) >> ELSE << >> ]
  /\ tabs' = [ tabs EXCEPT ![t].pc = "idle" ]
  /\ UNCHANGED << saved, nextId, now, events, last, extVars, locks, holder >>

\* the storage listener or channel.onmessage of tab t: mockState = snapshot
Hear(t) ==
  /\ pending[t] # Null
  /\ tabs' = [ tabs EXCEPT ![t].ms = IF Awaiting(t) THEN pending[t] ELSE @ ]
  /\ pending' = [ pending EXCEPT ![t] = Null ]
  /\ UNCHANGED << room, saved, dbPerms, nextId, now, events, last, extVars,
                  locks, holder, timers, received >>

\* the oldest setTimeout(0) callback of tab t: broadcastToLocal
Fire(t) ==
  /\ timers[t] # << >>
  /\ LET e == Head(timers[t])
     IN  received' = [ received EXCEPT ![t] = Append(@,
           [ type |-> e.ev.type, no |-> e.no,
             inside |-> (Awaiting(t) /\ tabs[t].no = e.no),
             same |-> (e.ev.type = "room:update" => e.ev.state = e.saved) ]) ]
  /\ timers' = [ timers EXCEPT ![t] = Tail(@) ]
  /\ UNCHANGED << room, saved, dbPerms, nextId, now, events, last, extVars,
                  locks, holder, tabs, pending >>

InitLoop == InitRoom /\ locks \in BOOLEAN /\ ExtOff

NextLoop ==
  \/ \E t \in Tabs : Open(t)
  \/ \E t \in Tabs : Emit(t)
  \/ \E t \in Tabs : Leave(t)
  \/ \E t \in Tabs : EnterConnect(t)
  \/ \E t \in Tabs : Await1(t)
  \/ \E t \in Tabs : Await2(t)
  \/ \E t \in Tabs : EnterSync(t)
  \/ \E t \in Tabs : Hear(t)
  \/ \E t \in Tabs : Fire(t)

SpecLoop == InitLoop /\ [][NextLoop]_vars

\* The lock manager grants a free lock to a waiting request, a database
\* transaction ends, and the browser runs its tasks.
FairLoop ==
  \A t \in Tabs :
    /\ WF_vars(EnterConnect(t))
    /\ WF_vars(EnterSync(t))
    /\ WF_vars(Await1(t))
    /\ WF_vars(Await2(t))
    /\ WF_vars(Hear(t))
    /\ WF_vars(Fire(t))

SpecLoopFair == SpecLoop /\ FairLoop

\* ---- fan-out of room:update ----------------------------------------------
\* Every save is followed by broadcastGlobal('room:update', snapshot).  The
\* listeners of a tab are called with the snapshot of a save from three
\* places: the tab's own setTimeout(0) of broadcastGlobal, its storage
\* listener, and channel.onmessage.  Saves are numbered in the order in which
\* they are made (they are made one at a time); what a handler saves does
\* not matter here.  mem[t] is the save whose snapshot tab t holds in
\* mockState (0: the state that all tabs held before the first save).
\* shown[n] stands for the four fields of the snapshot of save n that the
\* storage listener compares: playbackState, currentTrackId, users.length
\* and playAllowedUserIds.length.

\* the room, the lock and the tabs' messages are not followed
RoomIdle == UNCHANGED << room, saved, dbPerms, nextId, now, events, last, loopVars >>
BusIdle == UNCHANGED bus
ClientIdle == UNCHANGED player
StoreIdle == UNCHANGED store
SyncIdle == UNCHANGED sync
LateIdle == UNCHANGED late

\* a handler of tab t saves: setItem queues a storage event for the other
\* tabs, broadcastGlobal arms the local timer and the postMessage timer
BusCommit(t) ==
  /\ RoomIdle /\ ClientIdle /\ StoreIdle /\ SyncIdle /\ LateIdle
  /\ bus.commits < MaxCommits
  /\ \E fields \in Shown :
     LET n == bus.commits + 1
     IN  bus' = [ bus EXCEPT
           !.commits = n,
           !.shown = Append(@, fields),
           !.mem[t] = n,
           !.timers[t] = @ \o << [ kind |-> "local", n |-> n ],
                                 [ kind |-> "post", n |-> n ] >>,
           !.storage = [ u \in Tabs |-> IF u = t THEN @[u] ELSE Append(@[u], n) ] ]

\* the oldest setTimeout(0) callback of tab t
BusTimer(t) ==
  /\ RoomIdle /\ ClientIdle /\ StoreIdle /\ SyncIdle /\ LateIdle
  /\ bus.timers[t] # << >>
  /\ LET e == Head(bus.timers[t])
     IN  bus' = [ bus EXCEPT
           !.timers[t] = Tail(@),
           !.seen[t] = IF e.kind = "local" THEN Append(@, e.n) ELSE @,
           !.channel = [ u \in Tabs |->
               IF e.kind = "post" /\ u # t THEN Append(@[u], e.n) ELSE @[u] ] ]

ShownOf(n) == IF n = 0 THEN 0 ELSE bus.shown[n]

\* the storage listener of tab t: it assigns the snapshot to mockState,
\* and calls the listeners when the snapshot differs from the old mockState
\* in one of the four fields
BusStorage(t) ==
  /\ RoomIdle /\ ClientIdle /\ StoreIdle /\ SyncIdle /\ LateIdle
  /\ bus.storage[t] # << >>
  /\ LET n == Head(bus.storage[t])
         differs == ShownOf(n) # ShownOf(bus.mem[t])
     IN  bus' = [ bus EXCEPT
           !.storage[t] = Tail(@),
           !.mem[t] = n,
           !.seen[t] = IF differs THEN Append(@, n) ELSE @ ]

\* channel.onmessage of tab t: mockState = payload, then the listeners
BusChannel(t) ==
  /\ RoomIdle /\ ClientIdle /\ StoreIdle /\ SyncIdle /\ LateIdle
  /\ bus.channel[t] # << >>
  /\ bus' = [ bus EXCEPT !.channel[t] = Tail(@),
                         !.mem[t] = Head(bus.channel[t]),
                         !.seen[t] = Append(@, Head(bus.channel[t])) ]

NextBus ==
  \/ \E t \in Tabs : BusCommit(t)
  \/ \E t \in Tabs : BusTimer(t)
  \/ \E t \in Tabs : BusStorage(t)
  \/ \E t \in Tabs : BusChannel(t)

SpecBus == Init /\ [][NextBus]_vars

\* ---- the client: listeners of play:scheduled, pause:sync, seek:sync ------
\* The events are those that the handlers broadcast for a room with users
\* A (admin, id 1) and B (id 2): A plays at server time 0 from a paused
\* position, pauses at 490, seeks at 500.  est is the value of
\* syncManager.getEstimatedServerTime() when a step runs; a timer armed for
\* delay ms is due when est has advanced by delay.  media.pos is the value
\* last assigned to audio.currentTime, in thousandths of a second; the
\* progress of a playing element is not followed.
ScenarioRoom(position) ==
  LET r1 == connect(DefaultState, {}, 1, "none")
      r2 == connect(r1.st, r1.db, 2, "none")
  IN  cmdSeek(r2.st, r2.db, 1, position, 0).st

ScenarioPlay(position) == cmdPlay(ScenarioRoom(position), {}, 1, 0)

PlayEvents == { ScenarioPlay(p).ev[2] : p \in HeardPositions }
PauseEvents == { cmdPause(ScenarioPlay(p).st, {}, 1, 490).ev[2] : p \in { ScenarioPosition } }
SeekEvents == { cmdSeek(ScenarioPlay(p).st, {}, 1, 3000, 500).ev[2] : p \in { ScenarioPosition } }

Arm(pl, due, kind, pos) ==
  [ pl EXCEPT !.armed = @ \cup { [ due |-> due, kind |-> kind, pos |-> pos,
                                   no |-> pl.count + 1 ] } ]

\* playImmediate(startTime)
playImmediate(pl, startTime) ==
  [ pl EXCEPT !.media = [ playing |-> TRUE, pos |-> startTime ] ]

\* play:scheduled that starts at startOffset whenever the event is due
onPlayScheduledNoDrift(pl, ev) ==
  LET delayMs == ev.playAtServerTime - pl.est
  IN  IF delayMs <= DueSlack
        THEN playImmediate(pl, Max(0, ev.startOffset))
        ELSE Arm(pl, pl.est + delayMs, "play", ev.startOffset)

\* play:scheduled that never arms a timer
onPlayScheduledAlwaysNow(pl, ev) ==
  playImmediate(pl, Max(0, ev.startOffset + (pl.est - ev.playAtServerTime)))

onPlayScheduled(pl, ev) ==
  LET serverTime == pl.est
      delayMs == ev.playAtServerTime - serverTime
  IN  IF delayMs <= DueSlack
        THEN playImmediate(pl, Max(0, ev.startOffset + (serverTime - ev.playAtServerTime)))
        ELSE Arm(pl, serverTime + delayMs, "play", ev.startOffset)

\* audio.pause(); setLocalProgress(position)
onPauseSync(pl, ev) ==
  [ pl EXCEPT !.media.playing = FALSE, !.progress = ev.position ]

onSeekSync(pl, ev) ==
  LET serverTime == pl.est
      delayMs == ev.atServerTime - serverTime
      p2 == IF delayMs > DueSlack
              THEN Arm(pl, serverTime + delayMs, "seek", ev.position)
              ELSE [ pl EXCEPT !.media.pos = ev.position ]
  IN  [ p2 EXCEPT !.progress = ev.position ]

\* the callback of an armed timer
onTimer(pl, tm) ==
  LET p2 == [ pl EXCEPT !.armed = @ \ { tm } ]
  IN  IF tm.kind = "play"
        THEN playImmediate(p2, tm.pos)
        ELSE [ p2 EXCEPT !.media.pos = tm.pos ]

\* what the step that leads to the next state was, and what it started from
Step(type, ev) ==
  [ type |-> type, ev |-> ev, est |-> player.est,
    media |-> player.media, armed |-> player.armed ]

PlayerIdle == RoomIdle /\ BusIdle /\ StoreIdle /\ SyncIdle /\ LateIdle

Receive(handled, ev) ==
  /\ PlayerIdle
  /\ player.count < MaxEvents
  /\ player' = [ handled EXCEPT !.count = @ + 1, !.last = Step(ev.type, ev) ]

ReceivePlay == \E ev \in PlayEvents : Receive(onPlayScheduled(player, ev), ev)
ReceivePause == \E ev \in PauseEvents : Receive(onPauseSync(player, ev), ev)
ReceiveSeek == \E ev \in SeekEvents : Receive(onSeekSync(player, ev), ev)

TimerFires ==
  /\ PlayerIdle
  /\ \E tm \in player.armed :
       /\ player.est >= tm.due
       /\ player' = [ onTimer(player, tm) EXCEPT !.last = Step("timer", tm) ]

ClockAdvances ==
  /\ PlayerIdle
  /\ \E e \in ClockPoints :
       /\ e > player.est
       /\ player' = [ player EXCEPT !.est = e, !.last = [ type |-> "none" ] ]

NextPlayer ==
  \/ ReceivePlay
  \/ ReceivePause
  \/ ReceiveSeek
  \/ TimerFires
  \/ ClockAdvances

SpecPlayer == Init /\ [][NextPlayer]_vars

\* ---- loadState and the handlers that start from it -----------------------
\* JSON.parse throws on unparseable text and loadState catches it; whatever
\* JSON.parse returns is returned unexamined.
loadState(stored) ==
  IF stored.kind \in { "absent", "text" } THEN Stored(DefaultState) ELSE stored

Malformed == { Unparseable, JsonNull } \cup { JsonObject(f) : f \in SUBSET InertFields }

\* the first property of mockState that the handler dereferences
FirstField(op) ==
  CASE op \in { "connect", "disconnect" } -> "users"
    [] op \in { "cmd:play", "cmd:next" } -> "playAllowedUserIds"
    [] op = "cmd:addTrack" -> "queue"

\* the handler on a loaded RoomState
Handler(op, st, userId) ==
  CASE op = "connect" -> connect(st, {}, userId, "none")
    [] op = "disconnect" -> disconnect(st, {}, userId)
    [] op = "cmd:play" -> cmdPlay(st, {}, userId, 0)
    [] op = "cmd:addTrack" -> cmdAddTrack(st, {}, userId, SeedTrack)
    [] op = "cmd:next" -> cmdNext(st, {}, userId)

\* connect and disconnect use mockState.users of whatever was loaded;
\* handleServerEvent returns at "if (!mockState)" and otherwise calls a
\* method of a property of the loaded value, which an object with
\* InertFields only does not have
Outcome(op, loaded) ==
  CASE loaded.kind = "state" -> "completed"
    [] loaded.kind = "null" ->
         IF op \in { "connect", "disconnect" } THEN "TypeError" ELSE "returned"
    [] loaded.kind = "object" /\ FirstField(op) \notin loaded.has -> "TypeError"

StoreOnly == RoomIdle /\ BusIdle /\ ClientIdle /\ SyncIdle /\ LateIdle

\* any script of the origin may set the entry
Overwrite ==
  /\ StoreOnly
  /\ \E v \in Malformed :
       /\ v # store.stored
       /\ store' = [ store EXCEPT !.stored = v, !.op = "none", !.outcome = "none" ]

Load(op, userId) ==
  /\ StoreOnly
  /\ store.count < MaxLoads
  /\ LET loaded == loadState(store.stored)
         outcome == Outcome(op, loaded)
         saved2 == IF loaded.kind = "state"
                     THEN LET r == Handler(op, loaded.st, userId)
                          IN  IF r.ev = << >> THEN store.stored ELSE Stored(r.st)
                     ELSE store.stored
     IN  store' = [ stored |-> saved2, read |-> store.stored, loaded |-> loaded,
                    op |-> op, outcome |-> outcome, count |-> store.count + 1 ]

\* the id that connect draws is new; the other handlers are given any id
LoadConnect == Load("connect", store.count + 1)
LoadDisconnect == \E u \in 1 .. MaxLoads : Load("disconnect", u)
LoadCommand == \E op \in Loaders \ { "connect", "disconnect" } : \E u \in 1 .. MaxLoads : Load(op, u)

NextStore ==
  \/ Overwrite
  \/ LoadConnect
  \/ LoadDisconnect
  \/ LoadCommand

SpecStore == Init /\ [][NextStore]_vars

\* ---- the sync loop: one pong per ping -------------------------------------
InitSync ==
  /\ InitRoom
  /\ locks = TRUE
  /\ bus = BusOff /\ player = PlayerOff /\ store = StoreOff /\ late = Null
  /\ \E path \in Paths : sync = SyncStart(path)

Ingest ==
  /\ RoomIdle /\ BusIdle /\ ClientIdle /\ StoreIdle /\ LateIdle
  /\ sync.count < MaxProbes
  /\ LET i == sync.count + 1
         pong == PongOf(sync.path, i)
     IN  sync' = [ sync EXCEPT
                     !.count = i,
                     !.before = sync.m,
                     !.m = processPong(sync.m, pong.clientSendTime, pong.serverReceiveTime,
                                       pong.serverReplyTime, ReceivedAt(sync.path, i)) ]

NextSync == Ingest

SpecSync == InitSync /\ [][NextSync]_vars

\* ---- properties ---------------------------------------------------------
\* the last message was the command op, handled in state last.pre
Handled(op) == last.op = op
PermittedBefore == InSeq(last.userId, last.pre.playAllowedUserIds)
PlaybackCmds ==
  { "cmd:play", "cmd:playSpecificTrack", "cmd:pause", "cmd:seek", "cmd:next" }
Unchanged == room = last.pre /\ events = << >>
\* index of the first queue entry that carries the current track id
IndexOfCurrent(st) ==
  CHOOSE i \in 0 .. Len(st.queue) :
    \/ i = 0 /\ \A j \in 1 .. Len(st.queue) : st.queue[j] # st.currentTrackId
    \/ /\ i > 0
       /\ st.queue[i] = st.currentTrackId
       /\ \A j \in 1 .. (i - 1) : st.queue[j] # st.currentTrackId

\* C1: whenever the persisted room has users, adminId is the id of a present
\* user and is a member of playAllowedUserIds.
C1_AdminPresentAndPermitted ==
  Len(room.users) > 0 =>
    /\ \E i \in 1 .. Len(room.users) : room.users[i].id = room.adminId
    /\ \E i \in 1 .. Len(room.playAllowedUserIds) :
         room.playAllowedUserIds[i] = room.adminId

\* C2: playAllowedUserIds of the persisted room contains no id that is
\* absent from users.
C2_PermittedArePresent ==
  \A i \in 1 .. Len(room.playAllowedUserIds) :
    \E j \in 1 .. Len(room.users) :
      room.users[j].id = room.playAllowedUserIds[i]

\* C3: play, playSpecificTrack, pause, seek and next submitted by an id that
\* is not in playAllowedUserIds leave the persisted room as it was and
\* broadcast nothing.
C3_UnauthorizedRejected ==
  (last.op \in PlaybackCmds /\ ~ PermittedBefore) => Unchanged

\* a present user without permission has just asked for a seek
C3_Witness ==
  /\ Handled("cmd:seek")
  /\ ~ PermittedBefore
  /\ last.userId \in Ids(last.pre.users)
  /\ Val(last.pre.pausedAtPosition) # last.arg

\* C4: play on a room that is PLAYING and pause on a room that is not
\* PLAYING leave the persisted room (startAt included) as it was and
\* broadcast nothing.
C4_PreconditionNoOp ==
  (\/ Handled("cmd:play") /\ last.pre.playbackState = "PLAYING"
   \/ Handled("cmd:pause") /\ last.pre.playbackState # "PLAYING")
    => Unchanged

\* a permitted user has asked for play on a PLAYING room at an instant at
\* which a recomputed startAt would differ from the stored one
C4_Witness ==
  /\ Handled("cmd:play")
  /\ PermittedBefore
  /\ last.pre.playbackState = "PLAYING"
  /\ Val(last.pre.startAtServerTime) #
       last.now + 500 - Val(last.pre.pausedAtPosition)

\* C5: a play accepted at server time now with paused position p makes the
\* room PLAYING with startAt = now + 500 - p*1000 and emits play:scheduled
\* with the current track, playAt = now + 500 and startOffset = p, so that
\* the elapsed position at playAt is p.
C5_PlayContinuity ==
  (Handled("cmd:play") /\ PermittedBefore /\ last.pre.playbackState # "PLAYING")
    => LET p == Val(last.pre.pausedAtPosition)
           playAt == last.now + 500
       IN  /\ room.playbackState = "PLAYING"
           /\ room.startAtServerTime = Some(playAt - p)
           /\ Len(events) = 2
           /\ events[2] = PlayScheduled(last.pre.currentTrackId, playAt, p)
           /\ playAt - Val(room.startAtServerTime) = p

\* a play has been accepted on a room paused at a position other than 0
C5_Witness ==
  /\ Handled("cmd:play")
  /\ PermittedBefore
  /\ last.pre.playbackState # "PLAYING"
  /\ Val(last.pre.pausedAtPosition) # 0

\* C6: a pause accepted at server time now on a PLAYING room sets
\* pausedAtPosition = (now - startAt)/1000 for every startAt, makes the room
\* PAUSED with startAt null, and emits pause:sync with now and that position.
C6_PauseSetsElapsed ==
  (Handled("cmd:pause") /\ PermittedBefore /\ last.pre.playbackState = "PLAYING")
    => LET elapsed == last.now - Val(last.pre.startAtServerTime)
       IN  /\ room.playbackState = "PAUSED"
           /\ room.startAtServerTime = Null
           /\ room.pausedAtPosition = Some(elapsed)
           /\ Len(events) = 2
           /\ events[2] = PauseSync(last.now, elapsed)

\* C7: a seek accepted at server time now on a PLAYING room keeps it
\* PLAYING, sets pausedAtPosition = position and startAt = now + 300 -
\* position*1000 and emits seek:sync{position, now + 300}; at every later
\* instant t the elapsed position is position + (t - (now + 300))/1000.
C7_SeekWhilePlaying ==
  (Handled("cmd:seek") /\ PermittedBefore /\ last.pre.playbackState = "PLAYING")
    => LET position == last.arg
           execAt == last.now + 300
       IN  /\ room.playbackState = "PLAYING"
           /\ room.pausedAtPosition = Some(position)
           /\ room.startAtServerTime = Some(execAt - position)
           /\ Len(events) = 2
           /\ events[2] = SeekSync(position, execAt)
           /\ \A dt \in {0, 1, 250, 1000} :
                (execAt + dt) - Val(room.startAtServerTime) = position + dt

\* a seek to a position other than 0 has been accepted on a PLAYING room
\* whose start instant it had to move
C7_Witness ==
  /\ Handled("cmd:seek")
  /\ PermittedBefore
  /\ last.pre.playbackState = "PLAYING"
  /\ last.arg # 0
  /\ room.startAtServerTime # last.pre.startAtServerTime

\* C8: playSpecificTrack(trackId) by a permitted user with trackId in the
\* queue, in any playback state, sets currentTrackId = trackId,
\* pausedAtPosition = 0, PLAYING and startAt = now + 800 and emits
\* play:scheduled{trackId, now + 800, 0}.
C8_PlaySpecificTrack ==
  (/\ Handled("cmd:playSpecificTrack")
   /\ PermittedBefore
   /\ \E i \in 1 .. Len(last.pre.queue) : last.pre.queue[i] = last.arg)
    => /\ room.currentTrackId = last.arg
       /\ room.pausedAtPosition = Some(0)
       /\ room.playbackState = "PLAYING"
       /\ room.startAtServerTime = Some(last.now + 800)
       /\ Len(events) = 2
       /\ events[2] = PlayScheduled(last.arg, last.now + 800, 0)

\* another track of the queue has been started while the room was PLAYING
\* at a position other than 0
C8_Witness ==
  /\ Handled("cmd:playSpecificTrack")
  /\ PermittedBefore
  /\ InSeq(last.arg, last.pre.queue)
  /\ last.pre.playbackState = "PLAYING"
  /\ last.arg # last.pre.currentTrackId
  /\ Val(last.pre.pausedAtPosition) # 0

\* C9: playSpecificTrack with a track id that is not in the queue, and next
\* when no queue entry follows the current track, leave the persisted room
\* as it was and broadcast nothing.
C9_NotFoundNoOp ==
  (\/ /\ Handled("cmd:playSpecificTrack")
      /\ \A i \in 1 .. Len(last.pre.queue) : last.pre.queue[i] # last.arg
   \/ /\ Handled("cmd:next")
      /\ IndexOfCurrent(last.pre) = Len(last.pre.queue))
    => Unchanged

\* a permitted user has asked for next on the last entry of a queue whose
\* first entry is another track
C9_Witness ==
  /\ Handled("cmd:next")
  /\ PermittedBefore
  /\ Len(last.pre.queue) > 1
  /\ IndexOfCurrent(last.pre) = Len(last.pre.queue)
  /\ last.pre.queue[1] # last.pre.currentTrackId

\* C10: next by a permitted user with the current track at index i and an
\* entry at index i+1 sets currentTrackId to that entry's id, PAUSED,
\* pausedAtPosition 0 and startAt null, from PAUSED and from PLAYING.
C10_NextAdvances ==
  (/\ Handled("cmd:next")
   /\ PermittedBefore
   /\ IndexOfCurrent(last.pre) + 1 <= Len(last.pre.queue))
    => /\ room.currentTrackId = last.pre.queue[IndexOfCurrent(last.pre) + 1]
       /\ room.playbackState = "PAUSED"
       /\ room.pausedAtPosition = Some(0)
       /\ room.startAtServerTime = Null

\* next has moved a PLAYING room to a following entry with another id
C10_Witness ==
  /\ Handled("cmd:next")
  /\ PermittedBefore
  /\ IndexOfCurrent(last.pre) + 1 <= Len(last.pre.queue)
  /\ last.pre.playbackState = "PLAYING"
  /\ room.currentTrackId # last.pre.currentTrackId

\* C11: cmd:addTrack from any id, permitted or not, appends the track as the
\* last queue entry, keeps the earlier entries in order, changes no other
\* field of the room and broadcasts one room:update.
C11_AddTrackAppends ==
  Handled("cmd:addTrack") =>
    /\ room.queue = Append(last.pre.queue, last.arg)
    /\ room = [ last.pre EXCEPT !.queue = room.queue ]
    /\ events = << RoomUpdate(room) >>

\* a submitter without play permission has just added a track
C11_Witness ==
  /\ Handled("cmd:addTrack")
  /\ ~ PermittedBefore
  /\ Len(room.queue) = Len(last.pre.queue) + 1

\* C12: cmd:grantPlay and cmd:revokePlay from a submitter that is not the
\* admin leave the persisted room as it was and broadcast nothing, also
\* when the submitter holds play permission.
C12_NonAdminRejected ==
  ( /\ last.op \in { "cmd:grantPlay", "cmd:revokePlay" }
    /\ last.userId # last.pre.adminId ) => Unchanged

\* a permitted member that is not the admin has just asked to revoke
\* another permitted member that is not the admin
C12_Witness ==
  /\ Handled("cmd:revokePlay")
  /\ last.userId # last.pre.adminId
  /\ PermittedBefore
  /\ last.arg # last.pre.adminId
  /\ InSeq(last.arg, last.pre.playAllowedUserIds)

\* C13: cmd:revokePlay aimed at the admin id leaves the room as it was, and
\* neither cmd:grantPlay nor cmd:revokePlay takes the admin id out of
\* playAllowedUserIds or changes adminId.
C13_AdminNotRevocable ==
  /\ (Handled("cmd:revokePlay") /\ last.arg = last.pre.adminId) => Unchanged
  /\ ( /\ last.op \in { "cmd:grantPlay", "cmd:revokePlay" }
       /\ InSeq(last.pre.adminId, last.pre.playAllowedUserIds) ) =>
        /\ room.adminId = last.pre.adminId
        /\ InSeq(room.adminId, room.playAllowedUserIds)

\* the admin has just asked to revoke itself
C13_Witness ==
  /\ Handled("cmd:revokePlay")
  /\ last.userId = last.pre.adminId
  /\ last.arg = last.pre.adminId
  /\ InSeq(last.arg, last.pre.playAllowedUserIds)

\* C14: handling the cmd:grantPlay or cmd:revokePlay that was just handled
\* once more gives the same room, and an id the admin granted occurs in
\* playAllowedUserIds exactly once.
C14_GrantRevokeIdempotent ==
  /\ Handled("cmd:grantPlay") =>
        /\ cmdGrantPlay(room, dbPerms, last.userId, last.arg).st = room
        /\ cmdGrantPlay(room, dbPerms, last.userId, last.arg).db = dbPerms
        /\ last.userId = last.pre.adminId =>
             Cardinality({ i \in 1 .. Len(room.playAllowedUserIds) :
                             room.playAllowedUserIds[i] = last.arg }) = 1
  /\ Handled("cmd:revokePlay") =>
        /\ cmdRevokePlay(room, dbPerms, last.userId, last.arg).st = room
        /\ cmdRevokePlay(room, dbPerms, last.userId, last.arg).db = dbPerms

\* the admin has just granted a member that held no permission
C14_Witness ==
  /\ Handled("cmd:grantPlay")
  /\ ~ InSeq(last.arg, last.pre.playAllowedUserIds)
  /\ InSeq(last.arg, room.playAllowedUserIds)

\* C16: a user that joins a room without admin (no users, or adminId
\* empty) is the admin of the persisted room and a member of its
\* playAllowedUserIds; a join to a room that has an admin leaves adminId
\* as it was.
C16_JoinPolicy ==
  Handled("connect") =>
    IF Len(last.pre.users) = 0 \/ last.pre.adminId = NoAdmin
      THEN /\ room.adminId = last.userId
           /\ InSeq(last.userId, room.playAllowedUserIds)
      ELSE room.adminId = last.pre.adminId

\* C17: when the admin leaves and members remain, the earliest remaining
\* member is adminId and is permitted, the id that left is not permitted,
\* and every other remaining member is permitted exactly if it was before;
\* when the last user leaves, adminId and playAllowedUserIds are empty.
C17_AdminDeparture ==
  ( /\ Handled("disconnect")
    /\ last.userId = last.pre.adminId
    /\ last.userId \in Ids(last.pre.users) ) =>
    LET remaining == SelectSeq(last.pre.users, LAMBDA u : u.id # last.userId)
    IN  IF Len(remaining) > 0
          THEN /\ room.adminId = remaining[1].id
               /\ InSeq(room.adminId, room.playAllowedUserIds)
               /\ ~ InSeq(last.userId, room.playAllowedUserIds)
               /\ \A i \in 2 .. Len(remaining) :
                    InSeq(remaining[i].id, room.playAllowedUserIds)
                      <=> InSeq(remaining[i].id, last.pre.playAllowedUserIds)
          ELSE /\ room.adminId = NoAdmin
               /\ room.playAllowedUserIds = << >>

\* the admin has just left two members behind, the earlier without
\* permission and the later with it
C17_Witness ==
  /\ Handled("disconnect")
  /\ last.userId = last.pre.adminId
  /\ Len(room.users) = 2
  /\ ~ InSeq(room.users[1].id, last.pre.playAllowedUserIds)
  /\ InSeq(room.users[2].id, last.pre.playAllowedUserIds)
  /\ room.adminId = room.users[1].id

\* kinds of event that follow the room:update of a playback command
SpecificEvents == { "play:scheduled", "pause:sync", "seek:sync" }

\* C15: the listeners of the tab that handled a command are called with the
\* room:update of that command before its play:scheduled, pause:sync or
\* seek:sync, and the snapshot of every room:update they are called with
\* is the state that was saved before it was broadcast.
C15_UpdateThenSpecific ==
  \A t \in Tabs : \A j \in 1 .. Len(received[t]) :
    /\ received[t][j].type \in SpecificEvents =>
         \E i \in 1 .. (j - 1) :
           /\ received[t][i].type = "room:update"
           /\ received[t][i].no = received[t][j].no
    /\ received[t][j].type = "room:update" => received[t][j].same

\* the listeners of a tab have been called with the play:scheduled of its
\* own cmd:play
C15_Witness ==
  \E t \in Tabs : \E j \in 1 .. Len(received[t]) :
    /\ received[t][j].type = "play:scheduled"
    /\ tabs[t].msg = "cmd:play"
    /\ received[t][j].no = tabs[t].no

\* C18: at most one tab is between the load and the save of a
\* read-modify-write, no join is lost (every tab whose connect has resolved
\* and that has not asked to disconnect is in users), and a room with users
\* has exactly one of them as admin.
C18_Serialized ==
  /\ Cardinality({ t \in Tabs : Inside(t) }) <= 1
  /\ \A t \in Tabs :
       (tabs[t].uid # NoAdmin /\ tabs[t].msg # "disconnect") =>
         tabs[t].uid \in Ids(room.users)
  /\ Len(room.users) > 0 =>
       Cardinality({ i \in 1 .. Len(room.users) :
                       room.users[i].id = room.adminId }) = 1

\* C19: the room lock is held only by a callback that has not returned, and
\* every message that waits for the lock is handled in the end.
C19_LockReleased ==
  /\ [](holder # 0 => Inside(holder))
  /\ \A t \in Tabs : (tabs[t].pc = "queued") ~> (tabs[t].pc # "queued")

\* C20: no listener is called with an event of a message while the handler
\* of that message is still running.
C20_NeverSynchronous ==
  \A t \in Tabs : \A j \in 1 .. Len(received[t]) : ~ received[t][j].inside

Got(type) == player.last.type = type
DelayOf(at) == at - player.last.est
ArmedBy(kind, due, pos) ==
  \E tm \in player.armed \ player.last.armed :
    tm.kind = kind /\ tm.due = due /\ tm.pos = pos
PlayTimerFired == Got("timer") /\ player.last.ev.kind = "play"
SeekTimerFired == Got("timer") /\ player.last.ev.kind = "seek"

\* C22 as stated: a play:scheduled that is due within 20 ms starts the media
\* at once at startOffset + (estimatedNow - playAt); one due later leaves the
\* media alone and arms a timer for the delay, whose callback starts the
\* media at startOffset.
C22_StartsAtOverrun ==
  /\ Got("play:scheduled") =>
       LET ev == player.last.ev
           delay == DelayOf(ev.playAtServerTime)
       IN  IF delay <= DueSlack
             THEN /\ player.media = [ playing |-> TRUE, pos |-> ev.startOffset - delay ]
                  /\ player.armed = player.last.armed
             ELSE /\ player.media = player.last.media
                  /\ ArmedBy("play", ev.playAtServerTime, ev.startOffset)
  /\ PlayTimerFired =>
       player.media = [ playing |-> TRUE, pos |-> player.last.ev.pos ]

\* C22, amended: the immediate start position is
\* max(0, startOffset + (estimatedNow - playAt)); the rest as stated.
C22_StartsAtClampedOverrun ==
  /\ Got("play:scheduled") =>
       LET ev == player.last.ev
           delay == DelayOf(ev.playAtServerTime)
       IN  IF delay <= DueSlack
             THEN /\ player.media = [ playing |-> TRUE,
                                      pos |-> Max(0, ev.startOffset - delay) ]
                  /\ player.armed = player.last.armed
             ELSE /\ player.media = player.last.media
                  /\ ArmedBy("play", ev.playAtServerTime, ev.startOffset)
  /\ PlayTimerFired =>
       player.media = [ playing |-> TRUE, pos |-> player.last.ev.pos ]

C22_Witness ==
  /\ Got("play:scheduled")
  /\ player.last.est > player.last.ev.playAtServerTime
  /\ player.media.playing
  /\ player.media.pos > player.last.ev.startOffset

\* C23: pause:sync and seek:sync follow the rule of play:scheduled: an event
\* due in more than 20 ms leaves the media alone and arms a timer for the
\* delay; one due within 20 ms is executed at once, the media position being
\* set to position + (estimatedNow - eventTime), and pause:sync stops the
\* media.
C23_SameRule ==
  /\ Got("pause:sync") =>
       LET ev == player.last.ev
           delay == DelayOf(ev.pauseAtServerTime)
       IN  IF delay > DueSlack
             THEN /\ player.media = player.last.media
                  /\ ArmedBy("pause", ev.pauseAtServerTime, ev.position)
             ELSE player.media = [ playing |-> FALSE, pos |-> ev.position - delay ]
  /\ Got("seek:sync") =>
       LET ev == player.last.ev
           delay == DelayOf(ev.atServerTime)
       IN  IF delay > DueSlack
             THEN /\ player.media = player.last.media
                  /\ ArmedBy("seek", ev.atServerTime, ev.position)
             ELSE /\ player.media.pos = ev.position - delay
                  /\ player.media.playing = player.last.media.playing

\* C24: the callback of a timer that was armed by an event received before
\* the most recent one leaves the media as it is.
C24_Superseded ==
  (Got("timer") /\ player.last.ev.no < player.count) =>
    player.media = player.last.media

\* the play of the scenario: paused at 10 s, played at server time 0
GotScenarioPlay ==
  Got("play:scheduled") /\ player.last.ev = ScenarioPlay(ScenarioPosition).ev[2]
\* how far from 10.0 s "about 10.0 s" reaches, in thousandths of a second
About == 500

\* C25 as stated: the play of the scenario records startAt = -9500, and
\* every receiver executes it at once, starting about 10.0 s into the track.
C25_ImmediateAtAnyReceiver ==
  /\ ScenarioPlay(ScenarioPosition).st.startAtServerTime = Some(LeadPlay - ScenarioPosition)
  /\ GotScenarioPlay =>
       /\ player.media.playing
       /\ player.armed = player.last.armed
       /\ player.media.pos >= ScenarioPosition - About
       /\ player.media.pos <= ScenarioPosition + About

\* C25, amended: startAt = -9500; a receiver whose estimate is within 20 ms
\* of playAt = 500 or past it starts at once at 10 s + (estimate - 500), an
\* earlier one arms a timer for 500 - estimate whose callback starts the
\* media at 10.0 s.
C25_ImmediateOnlyWhenDue ==
  /\ ScenarioPlay(ScenarioPosition).st.startAtServerTime = Some(LeadPlay - ScenarioPosition)
  /\ GotScenarioPlay =>
       IF player.last.est >= LeadPlay - DueSlack
         THEN /\ player.media = [ playing |-> TRUE,
                                  pos |-> ScenarioPosition + (player.last.est - LeadPlay) ]
              /\ player.armed = player.last.armed
         ELSE /\ player.media = player.last.media
              /\ ArmedBy("play", LeadPlay, ScenarioPosition)
  /\ (PlayTimerFired /\ player.last.ev.pos = ScenarioPosition) =>
       /\ player.last.est >= LeadPlay
       /\ player.media = [ playing |-> TRUE, pos |-> ScenarioPosition ]

C25_Witness ==
  /\ GotScenarioPlay
  /\ player.last.est >= LeadPlay - DueSlack
  /\ player.media.playing
  /\ player.media.pos >= ScenarioPosition - DueSlack


\* ---- the persisted snapshot ----------------------------------------------
\* C26: a handler that finds a stored value which is not a RoomState loads
\* the default room state and completes without an exception.
C26_FailsClosed ==
  (store.op # "none" /\ store.read \in Malformed) =>
    /\ store.loaded = Stored(DefaultState)
    /\ store.outcome = "completed"


\* ---- the clock estimator -------------------------------------------------
Ingested == sync.count > 0
Retained == IF sync.count < WINDOW_SIZE THEN sync.count ELSE WINDOW_SIZE

\* C27: the ring holds min(n, 20) samples after n pongs, and they are the
\* most recent ones in arrival order.
C27_RingKeepsNewest ==
  /\ Len(sync.m.samples) = Retained
  /\ \A i \in 1 .. Len(sync.m.samples) :
       sync.m.samples[i].receivedAt = ReceivedAt(sync.path, sync.count - Retained + i)

C27_Witness ==
  /\ sync.count = WINDOW_SIZE + 5
  /\ Len(sync.m.samples) = WINDOW_SIZE
  /\ sync.m.samples[1].receivedAt = ReceivedAt(sync.path, 6)
  /\ sync.m.samples[WINDOW_SIZE].receivedAt = ReceivedAt(sync.path, WINDOW_SIZE + 5)

\* paths whose RTTs are constant or alternate between two values, and the
\* difference of the two, in units
Periodic == sync.path.head = << >> /\ Len(sync.path.cycle) <= 2
Spread == Abs(Rtt(sync.path, 1) - Rtt(sync.path, 2)) * Scale
\* pongs after which a jitter is taken to have converged, and how close, in
\* units, it is then to be to its limit
Converged == 100
JitterEps == 250

\* each pong but the first moves the jitter by a 16th of its distance to
\* |rtt_i - rtt_(i-1)|, whether or not a sample is evicted; it starts at 0
JitterRule ==
  /\ sync.count <= 1 => sync.m.jitter = 0
  /\ sync.count > 1 =>
       LET d == Abs(Rtt(sync.path, sync.count) - Rtt(sync.path, sync.count - 1)) * Scale
       IN  sync.m.jitter = sync.before.jitter + (d - sync.before.jitter) \div 16

\* C28 as stated: the jitter rule, and over constant or alternating RTTs
\* the jitter converges to |r1 - r2| * 16/17 (0 for constant RTTs).
C28_JitterFixedPoint16Over17 ==
  /\ JitterRule
  /\ (Periodic /\ sync.count >= Converged) =>
       Abs(sync.m.jitter - (Spread * 16) \div 17) <= JitterEps

\* C28, amended: the jitter rule, and over constant or alternating RTTs the
\* jitter rises towards |r1 - r2| without passing it (it stays 0 for
\* constant RTTs).
C28_JitterFixedPoint ==
  /\ JitterRule
  /\ Periodic =>
       /\ sync.m.jitter >= 0
       /\ sync.m.jitter <= Spread
       /\ sync.count >= Converged => Spread - sync.m.jitter <= JitterEps

C28_Witness ==
  /\ Periodic
  /\ Spread > 0
  /\ sync.count >= Converged
  /\ sync.m.jitter > (Spread * 16) \div 17 + JitterEps

\* C29: the first pong, and a pong whose target is more than 500 ms from
\* the offset, set the offset to the target; any other pong moves it by
\* 0.15 of its distance to the target.
Target == bestSample(sync.m.samples).offset
C29_SnapOrSlew ==
  Ingested =>
    IF sync.count = 1 \/ Abs(Target - sync.before.currentOffset) > SnapOver * Scale
      THEN sync.m.currentOffset = Target
      ELSE sync.m.currentOffset =
             sync.before.currentOffset + ((Target - sync.before.currentOffset) * 15) \div 100

\* how close, in units, "within a small epsilon" is
OffsetEps == 1000
TrueOffset == sync.path.offset * Scale
Slewed ==
  /\ sync.count > 1
  /\ sync.before.currentOffset # 0
  /\ Abs(Target - sync.before.currentOffset) <= SnapOver * Scale

\* C30: once the window has filled the estimate is within epsilon of the
\* true offset of the path, and a pong that slews leaves at most 0.85 of
\* the error.
C30_ConvergesToTrueOffset ==
  /\ sync.count >= WINDOW_SIZE => Abs(sync.m.currentOffset - TrueOffset) <= OffsetEps
  /\ Slewed =>
       Abs(sync.m.currentOffset - TrueOffset) * 100
         <= Abs(sync.before.currentOffset - TrueOffset) * 85 + 100


\* the probes whose samples are in the window, the earliest of them with
\* the least rtt, and the raw offset that probe i measures, in units
Window == (sync.count - Retained + 1) .. sync.count
EarliestLeast ==
  CHOOSE i \in Window :
    \A j \in Window : /\ Rtt(sync.path, i) <= Rtt(sync.path, j)
                      /\ j < i => Rtt(sync.path, j) > Rtt(sync.path, i)
RawOffsetOf(i) ==
  ((2 * sync.path.offset + Delays(sync.path, i)[1] - Delays(sync.path, i)[2]) * Scale) \div 2

\* C31: after every pong the latency is half the least rtt of the window,
\* and the offset either is the raw offset of the earliest sample of least
\* rtt in the window or has moved 0.15 of the way from its old value to it.
C31_MinFilter ==
  Ingested =>
    LET target == RawOffsetOf(EarliestLeast)
        old == sync.before.currentOffset
    IN  /\ sync.m.currentLatency = (Rtt(sync.path, EarliestLeast) * Scale) \div 2
        /\ sync.m.currentOffset \in { target, old + ((target - old) * 15) \div 100 }

\* the probe of least rtt has left the window and the latency has risen
C31_Witness ==
  /\ sync.count > WINDOW_SIZE
  /\ \A i \in Window : Rtt(sync.path, i) > Rtt(sync.path, 1)
  /\ sync.m.currentLatency > (Rtt(sync.path, 1) * Scale) \div 2
  /\ sync.m.currentOffset = RawOffsetOf(EarliestLeast)


\* every timer has run and every storage event and channel message has
\* been handled
Quiet ==
  \A t \in Tabs :
    bus.timers[t] = << >> /\ bus.storage[t] = << >> /\ bus.channel[t] = << >>

\* C32: once everything has been delivered, the mockState of every tab and
\* the last room:update its listeners were called with are those of the
\* last save.
C32_Convergence ==
  (Quiet /\ bus.commits > 0) =>
    \A t \in Tabs :
      /\ bus.mem[t] = bus.commits
      /\ bus.seen[t] # << >> => bus.seen[t][Len(bus.seen[t])] = bus.commits


\* ---- the persisted room ---------------------------------------------------
\* C33: in the persisted state every user record's isHost says whether the
\* user is the admin.
C33_HostIsDerived ==
  \A i \in 1 .. Len(room.users) :
    room.users[i].isHost = (room.users[i].id = room.adminId)


\* C34: startAtServerTime is a number exactly when the room is PLAYING, and
\* the room is PAUSED or PLAYING.
C34_StartIffPlaying ==
  /\ room.playbackState \in { "PAUSED", "PLAYING" }
  /\ (room.startAtServerTime # Null) <=> (room.playbackState = "PLAYING")

\* a room that played, was seeked while playing, and is paused again
C34_Witness ==
  /\ Handled("cmd:pause")
  /\ last.pre.playbackState = "PLAYING"
  /\ last.pre.startAtServerTime # Null
  /\ room.playbackState = "PAUSED"
  /\ room.startAtServerTime = Null


\* C35: pausedAtPosition is never negative, and a pause of a playing room
\* yields a position that is not before the one the room was started from
\* (cmd:play leaves pausedAtPosition alone, so in a playing room it still
\* is the position that the play resumed from).
C35_PositionMonotone ==
  /\ Val(room.pausedAtPosition) >= 0
  /\ (Handled("cmd:pause") /\ last.pre.playbackState = "PLAYING" /\ PermittedBefore) =>
       Val(room.pausedAtPosition) >= Val(last.pre.pausedAtPosition)


IsPrefix(s, t) == Len(s) <= Len(t) /\ SubSeq(t, 1, Len(s)) = s
Saved == last.op # "none" /\ events # << >>

\* C36: a handler that saves leaves the entries that the queue had in
\* place and can only add entries after them, and the current track is in
\* the queue.
C36_QueueAppendOnly ==
  /\ Saved => IsPrefix(last.pre.queue, room.queue)
  /\ InSeq(room.currentTrackId, room.queue)


ControlCmds == PlaybackCmds \cup { "cmd:grantPlay", "cmd:revokePlay" }

\* C37: a playback or permission command that changes the room was
\* submitted by an id that was in users when the command was processed.
C37_OnlyPresentControl ==
  (last.op \in ControlCmds /\ room # last.pre)
    => last.userId \in Ids(last.pre.users)


\* the step that has just been taken delegated permission to u: u joined
\* a room without admin, u was promoted when the admin left, or the admin
\* granted u
Delegated(u) ==
  \/ last'.op = "connect" /\ last'.userId = u /\ room.adminId = NoAdmin
  \/ /\ last'.op = "disconnect" /\ last'.userId = room.adminId
     /\ room'.adminId = u
  \/ /\ last'.op = "cmd:grantPlay" /\ last'.userId = room.adminId
     /\ room.adminId # NoAdmin /\ last'.arg = u
\* u holds no permission, neither in the room nor in the database: the
\* state that a successful revokePlay(u) leaves u in
Revoked(u) == u \notin dbPerms /\ ~ InSeq(u, room.playAllowedUserIds)
Enters(u) ==
  ~ InSeq(u, room.playAllowedUserIds) /\ InSeq(u, room'.playAllowedUserIds)

\* C38: the id of a present user enters playAllowedUserIds only in a step
\* that delegates permission to it; an id without permission stays
\* without it, and its playback commands are rejected, until such a step.
C38_OnlyDelegated ==
  [][ /\ \A u \in 1 .. MaxMembers :
           /\ (Enters(u) /\ u \in Ids(room'.users)) => Delegated(u)
           /\ (Revoked(u) /\ ~ Delegated(u)) => Revoked(u)'
      /\ (last'.op \in PlaybackCmds /\ Revoked(last'.userId))
           => (room' = room /\ events' = << >>)
    ]_vars


\* C39: a next that changes the room moves the current position strictly
\* forward in the queue; the position is bounded by the length of the
\* queue, so at most Len(queue) - 1 consecutive nexts change the room.
C39_NextRunsOff ==
  (Handled("cmd:next") /\ room # last.pre)
    => /\ IndexOfCurrent(room) > IndexOfCurrent(last.pre)
       /\ IndexOfCurrent(room) <= Len(room.queue)


MemberFields == { "adminId", "playAllowedUserIds", "users" }
PlaybackFields ==
  { "queue", "currentTrackId", "playbackState", "startAtServerTime",
    "pausedAtPosition" }
Keeps(fields) == \A f \in fields : room[f] = last.pre[f]

\* C40: the playback commands and addTrack leave adminId,
\* playAllowedUserIds and users as they were; grantPlay, revokePlay,
\* connect and disconnect leave the queue, currentTrackId, playbackState,
\* startAtServerTime and pausedAtPosition as they were.
C40_Frames ==
  /\ last.op \in PlaybackCmds \cup { "cmd:addTrack" } => Keeps(MemberFields)
  /\ last.op \in { "cmd:grantPlay", "cmd:revokePlay", "connect", "disconnect" }
       => Keeps(PlaybackFields)

====
